---- MODULE Spec2Model ----
(***************************************************************************)
(* Reed-Solomon codec of reedsolomon.ts (src/src/rs-codec.ts): the Galois  *)
(* field Generic_GF, the polynomial Generic_GF_Poly, RS_Encoder with its   *)
(* generator cache and RS_Decoder, driven the way the test suite drives    *)
(* them: encode a buffer, corrupt some positions, decode.                  *)
(*                                                                         *)
(* A polynomial is its coefficient sequence, most significant first, as in *)
(* the code; a JavaScript index i is the TLA+ index i + 1.                  *)
(***************************************************************************)
EXTENDS Integers, Sequences, FiniteSets, TLC

\* ------------------------------------------------------------------ bounds
\* longest buffer the caller allocates
MaxLen == 5
\* most positions the caller corrupts in one codeword
MaxErrors == 3
\* longest coefficient array of a polynomial the caller builds
MaxPolyLen == 3
\* most fields the caller constructs itself with new Generic_GF
MaxConstructed == 2

\* longest buffer handed to a decode call that is followed step by step; its
\* ec_bytes goes up to one more, decode does not compare the two
MaxReceived == 5

\* ------------------------------------------------------------- bit helpers
RECURSIVE BitXor(_, _)
\* a ^ b on non-negative integers
BitXor(a, b) ==
    IF a = 0 THEN b
    ELSE IF b = 0 THEN a
    ELSE (((a % 2) + (b % 2)) % 2) + 2 * BitXor(a \div 2, b \div 2)

RECURSIVE BitAnd(_, _)
\* a & b on non-negative integers
BitAnd(a, b) ==
    IF a = 0 \/ b = 0 THEN 0
    ELSE (a % 2) * (b % 2) + 2 * BitAnd(a \div 2, b \div 2)

\* an Int32Array given element by element, as a sequence
Arr(a) == a \o <<>>

\* ------------------------------------------------------------- Generic_GF
\* the body of the first loop of the constructor after the store (lines 231-235):
\* x *= 2, reduced by the primitive polynomial when it reaches size
Doubled(primitive, size, x) ==
    LET x2 == x * 2
    IN IF x2 >= size THEN BitAnd(BitXor(x2, primitive), size - 1) ELSE x2

RECURSIVE ExpFill(_, _, _, _)
\* the first loop of the constructor: the values n successive iterations store
\* in exp_table, the first of them being x (the iterations taken in two halves,
\* the second starting from the x the first one leaves)
ExpFill(primitive, size, x, n) ==
    IF n = 0 THEN <<>>
    ELSE IF n = 1 THEN <<x>>
    ELSE LET half == n \div 2
             first == ExpFill(primitive, size, x, half)
         IN first \o ExpFill(primitive, size,
                             Doubled(primitive, size, first[half]), n - half)

\* LogFill with the loop ending one iteration early, at i < size - 2
LogFillShort(size, exp_table) ==
    [x \in 0..(size - 1) |->
        LET written == {i \in 0..(size - 3) : exp_table[i] = x}
        IN IF written = {} THEN 0
           ELSE CHOOSE i \in written : \A j \in written : j <= i]

\* the second loop of the constructor: log_table[exp_table[i]] = i for i from 0
\* to size - 2 in this order, so an entry holds the last i written to it, and 0
\* when none was
LogFill(size, exp_table) ==
    [x \in 0..(size - 1) |->
        LET written == {i \in 0..(size - 2) : exp_table[i] = x}
        IN IF written = {} THEN 0
           ELSE CHOOSE i \in written : \A j \in written : j <= i]

\* new Generic_GF(primitive, size, generator_base)
GenericGF(primitive, size, generator_base) ==
    LET stored == ExpFill(primitive, size, 1, size)
        et == [i \in 0..(size - 1) |-> stored[i + 1]] @@ <<>>
        lt == LogFill(size, et) @@ <<>>
    IN [primitive |-> primitive, size |-> size, generator_base |-> generator_base,
        exp_table |-> et, log_table |-> lt]

\* Generic_GF.add_or_subtract(a, b)
GFAdd(a, b) == BitXor(a, b)

\* field.exp(a). An index past the table reads undefined; both places that use
\* the value (the Int32Array literal of build_generator, evaluate_at through
\* multiply and ^) then behave as for the element 0.
GFExp(f, a) == IF a \in DOMAIN f.exp_table THEN f.exp_table[a] ELSE 0

\* field.log(a), a # 0
GFLog(f, a) == f.log_table[a]

\* field.inverse(a), a # 0
GFInverse(f, a) == f.exp_table[f.size - f.log_table[a] - 1]

\* GFMultiply reducing the sum of the logarithms modulo size
GFMultiplyModSize(f, a, b) ==
    IF a = 0 \/ b = 0 THEN 0
    ELSE f.exp_table[(f.log_table[a] + f.log_table[b]) % f.size]

\* field.multiply(a, b)
GFMultiply(f, a, b) ==
    IF a = 0 \/ b = 0 THEN 0
    ELSE f.exp_table[(f.log_table[a] + f.log_table[b]) % (f.size - 1)]

\* -------------------------------------------------------- Generic_GF_Poly
COEFFICIENTS_ZERO == <<0>>

RECURSIVE FirstNonZero(_, _)
\* the while loop of the constructor, from first_non_zero = k (JavaScript index)
FirstNonZero(c, k) ==
    IF k < Len(c) /\ c[k + 1] = 0 THEN FirstNonZero(c, k + 1) ELSE k

\* new Generic_GF_Poly(field, coefficients): leading zeros are dropped
PolyNew(coefficients) ==
    LET c == Arr(coefficients)
    IN IF Len(c) > 1 /\ c[1] = 0
       THEN LET fnz == FirstNonZero(c, 1)
            IN IF fnz = Len(c) THEN COEFFICIENTS_ZERO ELSE SubSeq(c, fnz + 1, Len(c))
       ELSE c

\* poly.degree
Degree(p) == Len(p) - 1

\* poly.is_zero()
IsZero(p) == p[1] = 0

\* poly.get_coefficient(degree)
GetCoefficient(p, d) == p[Len(p) - d]

RECURSIVE XorAll(_, _, _)
\* evaluate_at(1): the XOR of the coefficients from JavaScript index i on
XorAll(p, i, result) ==
    IF i >= Len(p) THEN result ELSE XorAll(p, i + 1, GFAdd(result, p[i + 1]))

RECURSIVE Horner(_, _, _, _, _)
\* evaluate_at(a), general case, from JavaScript index i on
Horner(f, p, a, i, result) ==
    IF i >= Len(p) THEN result
    ELSE Horner(f, p, a, i + 1, GFAdd(GFMultiply(f, a, result), p[i + 1]))

\* poly.evaluate_at(a)
EvaluateAt(f, p, a) ==
    IF a = 0 THEN GetCoefficient(p, 0)
    ELSE IF a = 1 THEN XorAll(p, 0, 0)
    ELSE Horner(f, p, a, 1, p[1])

\* poly.add_or_subtract(other) without a buffer
AddOrSubtract(p, other) ==
    IF IsZero(p) THEN other
    ELSE IF IsZero(other) THEN p
    ELSE LET smaller == IF Len(p) > Len(other) THEN other ELSE p
             larger == IF Len(p) > Len(other) THEN p ELSE other
             length_diff == Len(larger) - Len(smaller)
             sum_diff == [i \in 1..Len(larger) |->
                            IF i <= length_diff THEN larger[i]
                            ELSE GFAdd(smaller[i - length_diff], larger[i])]
         IN PolyNew(sum_diff)

\* poly.multiply_poly(other)
MultiplyPoly(f, p, other) ==
    IF IsZero(p) \/ IsZero(other) THEN COEFFICIENTS_ZERO
    ELSE LET RECURSIVE Acc(_, _, _)
             \* product[k] accumulated over the pairs (i, j), i + j = k
             Acc(k, i, acc) ==
                 IF i >= Len(p) THEN acc
                 ELSE LET j == k - i
                      IN Acc(k, i + 1,
                             IF j >= 0 /\ j < Len(other)
                             THEN GFAdd(acc, GFMultiply(f, p[i + 1], other[j + 1]))
                             ELSE acc)
             product == [k \in 1..(Len(p) + Len(other) - 1) |-> Acc(k - 1, 0, 0)]
         IN PolyNew(product)

\* poly.multiply_scalar(scalar)
MultiplyScalar(f, p, scalar) ==
    IF scalar = 0 THEN COEFFICIENTS_ZERO
    ELSE IF scalar = 1 THEN p
    ELSE PolyNew([i \in 1..Len(p) |-> GFMultiply(f, p[i], scalar)])

\* poly.multiply_by_monomial(degree, coefficient), degree >= 0
MultiplyByMonomial(f, p, degree, coefficient) ==
    IF coefficient = 0 THEN COEFFICIENTS_ZERO
    ELSE PolyNew([i \in 1..(Len(p) + degree) |->
                    IF i <= Len(p) THEN GFMultiply(f, p[i], coefficient) ELSE 0])

\* field.build_monomial(degree, coefficient), degree >= 0
BuildMonomial(degree, coefficient) ==
    IF coefficient = 0 THEN COEFFICIENTS_ZERO
    ELSE PolyNew([i \in 1..(degree + 1) |-> IF i = 1 THEN coefficient ELSE 0])

\* p.add_or_subtract(other, p.coefficients), the form divide uses (lines 198-199),
\* where other is never longer than p: the sum is written into p's own storage.
\* buf is that storage afterwards; off is the JavaScript index in buf at which
\* the result's coefficients start, -1 when the result does not share it.
AddOrSubtractInto(p, other) ==
    IF IsZero(p) THEN [poly |-> other, buf |-> p, off |-> -1]
    ELSE IF IsZero(other) THEN [poly |-> p, buf |-> p, off |-> 0]
    ELSE LET length_diff == Len(p) - Len(other)
             sum_diff == Arr([i \in 1..Len(p) |->
                                IF i <= length_diff THEN p[i]
                                ELSE GFAdd(other[i - length_diff], p[i])])
             res == PolyNew(sum_diff)
         IN [poly |-> res, buf |-> sum_diff,
             off |-> IF Len(sum_diff) > 1 /\ sum_diff[1] = 0
                     THEN (IF FirstNonZero(sum_diff, 1) = Len(sum_diff)
                           THEN -1 ELSE FirstNonZero(sum_diff, 1))
                     ELSE 0]

RECURSIVE DivideLoop(_, _, _, _, _, _, _)
\* the while loop of divide. arr is the storage of the dividend, off the index
\* in it at which the remainder's coefficients start (-1: not shared).
DivideLoop(f, other, inv, quotient, remainder, arr, off) ==
    IF Degree(remainder) >= Degree(other) /\ ~IsZero(remainder)
    THEN LET degree_difference == Degree(remainder) - Degree(other)
             scale == GFMultiply(f, GetCoefficient(remainder, Degree(remainder)), inv)
             term == MultiplyByMonomial(f, other, degree_difference, scale)
             iteration_quotient == BuildMonomial(degree_difference, scale)
             q == AddOrSubtractInto(quotient, iteration_quotient)
             r == AddOrSubtractInto(remainder, term)
         IN DivideLoop(f, other, inv, q.poly, r.poly,
                       IF off >= 0 THEN SubSeq(arr, 1, off) \o r.buf ELSE arr,
                       IF off >= 0 /\ r.off >= 0 THEN off + r.off ELSE -1)
    ELSE [err |-> "", quotient |-> quotient, remainder |-> remainder, dividend |-> arr]

\* p.divide(other): quotient, remainder, and what p.coefficients holds afterwards
Divide(f, p, other) ==
    IF IsZero(other)
    THEN [err |-> "Divide by 0", quotient |-> COEFFICIENTS_ZERO,
          remainder |-> COEFFICIENTS_ZERO, dividend |-> p]
    ELSE DivideLoop(f, other, GFInverse(f, GetCoefficient(other, Degree(other))),
                    COEFFICIENTS_ZERO, p, p, 0)

\* ------------------------------------------------------------- RS_Encoder
\* the cache of a new RS_Encoder
NewCache == << <<1>> >>

RECURSIVE GrowGeneratorsBaseZero(_, _, _)
\* GrowGenerators with the generator base left out of the exponent
GrowGeneratorsBaseZero(f, cache, degree) ==
    IF Len(cache) > degree THEN cache
    ELSE LET d == Len(cache)
             next_generator ==
                 MultiplyPoly(f, cache[Len(cache)], PolyNew(<<1, GFExp(f, d - 1)>>))
         IN GrowGeneratorsBaseZero(f, Append(cache, next_generator), degree)

RECURSIVE GrowGenerators(_, _, _)
\* the for loop of build_generator: d from cached_generators.length to degree
GrowGenerators(f, cache, degree) ==
    IF Len(cache) > degree THEN cache
    ELSE LET d == Len(cache)
             next_generator ==
                 MultiplyPoly(f, cache[Len(cache)],
                              PolyNew(<<1, GFExp(f, d - 1 + f.generator_base)>>))
         IN GrowGenerators(f, Append(cache, next_generator), degree)

\* BuildGenerator returning last_generator, the newest entry, when the cache
\* already holds a higher degree than the one asked for
BuildGeneratorLast(f, cache, degree) ==
    LET grown == IF degree >= Len(cache) THEN GrowGenerators(f, cache, degree) ELSE cache
    IN [cache |-> grown, generator |-> grown[Len(grown)]]

\* build_generator(degree), degree >= 0: the cache afterwards and the generator
BuildGenerator(f, cache, degree) ==
    LET grown == IF degree >= Len(cache) THEN GrowGenerators(f, cache, degree) ELSE cache
    IN [cache |-> grown, generator |-> grown[degree + 1]]

\* WriteParity without the loop that zeroes the positions a short remainder skips
WriteParityNoPad(data, data_bytes, ec_bytes, coefficients) ==
    LET num_zero_coefficients == ec_bytes - Len(coefficients)
    IN Arr([i \in 1..Len(data) |->
              IF i <= data_bytes + num_zero_coefficients THEN data[i]
              ELSE coefficients[i - data_bytes - num_zero_coefficients]])

\* WriteParity returning early when the remainder is the zero polynomial
WriteParitySkipZero(data, data_bytes, ec_bytes, coefficients) ==
    IF IsZero(coefficients) THEN data
    ELSE LET num_zero_coefficients == ec_bytes - Len(coefficients)
         IN Arr([i \in 1..Len(data) |->
                   IF i <= data_bytes THEN data[i]
                   ELSE IF i <= data_bytes + num_zero_coefficients THEN 0
                   ELSE coefficients[i - data_bytes - num_zero_coefficients]])

\* WriteParity with the parity written one position early, at data_bytes - 1
WriteParityShifted(data, data_bytes, ec_bytes, coefficients) ==
    LET num_zero_coefficients == ec_bytes - Len(coefficients)
    IN Arr([i \in 1..Len(data) |->
              IF i <= data_bytes - 1 \/ i = Len(data) THEN data[i]
              ELSE IF i <= data_bytes - 1 + num_zero_coefficients THEN 0
              ELSE coefficients[i - (data_bytes - 1) - num_zero_coefficients]])

\* lines 338-346 of encode: the zero padding and the remainder, written at data_bytes
WriteParity(data, data_bytes, ec_bytes, coefficients) ==
    LET num_zero_coefficients == ec_bytes - Len(coefficients)
    IN Arr([i \in 1..Len(data) |->
              IF i <= data_bytes THEN data[i]
              ELSE IF i <= data_bytes + num_zero_coefficients THEN 0
              ELSE coefficients[i - data_bytes - num_zero_coefficients]])

\* Encode checking data_bytes only after build_generator has run
EncodeLateCheck(f, cache, data, ec_bytes) ==
    IF ec_bytes = 0
    THEN [err |-> "No error correction bytes", data |-> data, cache |-> cache]
    ELSE LET data_bytes == Len(data) - ec_bytes
             built == BuildGenerator(f, cache, ec_bytes)
         IN IF data_bytes <= 0
            THEN [err |-> "No data bytes provided", data |-> data, cache |-> built.cache]
            ELSE [err |-> "", cache |-> built.cache,
                  data |-> WriteParity(data, data_bytes, ec_bytes,
                              Divide(f, MultiplyByMonomial(f,
                                            PolyNew(SubSeq(data, 1, data_bytes)),
                                            ec_bytes, 1),
                                     built.generator).remainder)]

\* encoder.encode(data, ec_bytes), ec_bytes >= 0: the error raised ("" for none),
\* the buffer and the cache afterwards
Encode(f, cache, data, ec_bytes) ==
    IF ec_bytes = 0
    THEN [err |-> "No error correction bytes", data |-> data, cache |-> cache]
    ELSE IF Len(data) - ec_bytes <= 0
    THEN [err |-> "No data bytes provided", data |-> data, cache |-> cache]
    ELSE LET data_bytes == Len(data) - ec_bytes
             built == BuildGenerator(f, cache, ec_bytes)
             info0 == PolyNew(SubSeq(data, 1, data_bytes))
             info == MultiplyByMonomial(f, info0, ec_bytes, 1)
             remainder == Divide(f, info, built.generator).remainder
         IN [err |-> "", cache |-> built.cache,
             data |-> WriteParity(data, data_bytes, ec_bytes, remainder)]

\* ------------------------------------------------------------- RS_Decoder
\* SyndromeCoefficients evaluating at exp(i + generator_base + 1): one power late
SyndromeCoefficientsShifted(f, received, ec_bytes) ==
    LET poly == PolyNew(received)
    IN Arr([k \in 1..ec_bytes |->
              EvaluateAt(f, poly, GFExp(f, (ec_bytes - k) + f.generator_base + 1))])

\* the syndrome loop of decode: the value for i is stored at JavaScript index
\* ec_bytes - 1 - i
SyndromeCoefficients(f, received, ec_bytes) ==
    LET poly == PolyNew(received)
    IN Arr([k \in 1..ec_bytes |->
              EvaluateAt(f, poly, GFExp(f, (ec_bytes - k) + f.generator_base))])

RECURSIVE EuclidDivide(_, _, _, _, _)
\* the inner while loop of run_euclidean_algorithm: r by r_last, quotient q
EuclidDivide(f, r_last, dlt_inverse, q, r) ==
    IF Degree(r) >= Degree(r_last) /\ ~IsZero(r)
    THEN LET degree_diff == Degree(r) - Degree(r_last)
             scale == GFMultiply(f, GetCoefficient(r, Degree(r)), dlt_inverse)
         IN EuclidDivide(f, r_last, dlt_inverse,
                         AddOrSubtract(q, BuildMonomial(degree_diff, scale)),
                         AddOrSubtract(r, MultiplyByMonomial(f, r_last, degree_diff, scale)))
    ELSE [q |-> q, r |-> r]

\* the end of run_euclidean_algorithm (lines 451-459): scale t and r
EuclidFinish(f, t, r) ==
    LET sigma_tilde_at_zero == GetCoefficient(t, 0)
    IN IF sigma_tilde_at_zero = 0
       THEN [err |-> "sigmaTilde(0) was zero", sigma |-> t, omega |-> r]
       ELSE LET inv == GFInverse(f, sigma_tilde_at_zero)
            IN [err |-> "", sigma |-> MultiplyScalar(f, t, inv),
                omega |-> MultiplyScalar(f, r, inv)]

RECURSIVE EuclidLoopIntegerHalf(_, _, _, _, _, _)
\* EuclidLoop with R / 2 as an integer division: while r.degree >= floor(R / 2)
EuclidLoopIntegerHalf(f, R, r_last, r, t_last, t) ==
    IF Degree(r) >= R \div 2
    THEN IF IsZero(r)
         THEN [err |-> "r_{i-1} was zero", sigma |-> t, omega |-> r]
         ELSE LET dlt_inverse == GFInverse(f, GetCoefficient(r, Degree(r)))
                  qr == EuclidDivide(f, r, dlt_inverse, COEFFICIENTS_ZERO, r_last)
                  t_next == AddOrSubtract(MultiplyPoly(f, qr.q, t), t_last)
              IN IF Degree(qr.r) >= Degree(r)
                 THEN [err |-> "Division algorithm failed to reduce polynomial?",
                       sigma |-> t_next, omega |-> qr.r]
                 ELSE EuclidLoopIntegerHalf(f, R, r, qr.r, t, t_next)
    ELSE EuclidFinish(f, t, r)

\* EuclidContinues with R / 2 as an integer division: r.degree >= floor(R / 2)
EuclidContinuesIntegerHalf(R, r) == Degree(r) >= R \div 2

\* EuclidContinues letting the loop stop one degree early: r.degree > R / 2
EuclidContinuesAboveHalf(R, r) == 2 * Degree(r) > R

\* the condition of the outer while loop (line 424): r.degree >= R / 2, R / 2 a
\* JavaScript number, 1.5 for R = 3
EuclidContinues(R, r) == 2 * Degree(r) >= R

\* one pass through the body of the outer while loop (lines 425-448): the error
\* raised ("" for none) and r_last, r, t_last, t at the end of the pass
EuclidIteration(f, r_last, r, t_last, t) ==
    IF IsZero(r)
    THEN [err |-> "r_{i-1} was zero",
          r_last |-> r, r |-> r, t_last |-> t, t |-> t]
    ELSE LET dlt_inverse == GFInverse(f, GetCoefficient(r, Degree(r)))
             qr == EuclidDivide(f, r, dlt_inverse, COEFFICIENTS_ZERO, r_last)
             t_next == AddOrSubtract(MultiplyPoly(f, qr.q, t), t_last)
         IN [err |-> IF Degree(qr.r) >= Degree(r)
                     THEN "Division algorithm failed to reduce polynomial?"
                     ELSE "",
             r_last |-> r, r |-> qr.r, t_last |-> t, t |-> t_next]

RECURSIVE EuclidLoop(_, _, _, _, _, _)
\* the end of a pass of the outer while loop: a throw leaves the function, and
\* otherwise the loop condition is tested on the new r
EuclidAfterPass(f, R, pass) ==
    IF pass.err # ""
    THEN [err |-> pass.err, sigma |-> pass.t, omega |-> pass.r]
    ELSE EuclidLoop(f, R, pass.r_last, pass.r, pass.t_last, pass.t)

\* the outer while loop of run_euclidean_algorithm and what follows it
EuclidLoop(f, R, r_last, r, t_last, t) ==
    IF EuclidContinues(R, r)
    THEN EuclidAfterPass(f, R, EuclidIteration(f, r_last, r, t_last, t))
    ELSE EuclidFinish(f, t, r)

\* run_euclidean_algorithm(a, b, R)
RunEuclideanAlgorithm(f, a, b, R) ==
    IF Degree(a) < Degree(b)
    THEN EuclidLoop(f, R, b, a, COEFFICIENTS_ZERO, <<1>>)
    ELSE EuclidLoop(f, R, a, b, COEFFICIENTS_ZERO, <<1>>)

RECURSIVE RootSearchNoInverse(_, _, _, _)
\* RootSearch storing the root i itself where the code stores inverse(i)
RootSearchNoInverse(f, error_locator, i, result) ==
    IF i < f.size /\ Len(result) < Degree(error_locator)
    THEN RootSearchNoInverse(f, error_locator, i + 1,
                             IF EvaluateAt(f, error_locator, i) = 0
                             THEN Append(result, i) ELSE result)
    ELSE result

RECURSIVE RootSearch(_, _, _, _)
\* the for loop of find_error_locations: i < size and e < num_errors
RootSearch(f, error_locator, i, result) ==
    IF i < f.size /\ Len(result) < Degree(error_locator)
    THEN RootSearch(f, error_locator, i + 1,
                    IF EvaluateAt(f, error_locator, i) = 0
                    THEN Append(result, GFInverse(f, i)) ELSE result)
    ELSE result

\* find_error_locations(error_locator)
FindErrorLocations(f, error_locator) ==
    IF Degree(error_locator) = 1
    THEN [err |-> "", locations |-> <<GetCoefficient(error_locator, 1)>>]
    ELSE LET result == RootSearch(f, error_locator, 1, <<>>)
         IN IF Len(result) # Degree(error_locator)
            THEN [err |-> "Error locator degree does not match number of roots",
                  locations |-> result]
            ELSE [err |-> "", locations |-> result]

\* Denominator left at 1: the magnitude is never divided
DenominatorNone(f, error_locations, i, j, denominator) == 1

RECURSIVE Denominator(_, _, _, _, _)
\* the inner loop of find_error_magnitudes over j # i
Denominator(f, error_locations, i, j, denominator) ==
    IF j > Len(error_locations) THEN denominator
    ELSE Denominator(f, error_locations, i, j + 1,
            IF i # j
            THEN GFMultiply(f, denominator,
                     GFAdd(1, GFMultiply(f, error_locations[j],
                                         GFInverse(f, error_locations[i]))))
            ELSE denominator)

\* BaseFactor with the generator base forgotten: the magnitude is never scaled
BaseFactorNone(f, magnitude, xi_inverse) == magnitude

\* the factor applied to a magnitude for the field's generator base (lines 505-507)
BaseFactor(f, magnitude, xi_inverse) ==
    IF f.generator_base # 0 THEN GFMultiply(f, magnitude, xi_inverse) ELSE magnitude

\* find_error_magnitudes(error_evaluator, error_locations); inverse(0) raises
FindErrorMagnitudes(f, error_evaluator, error_locations) ==
    LET s == Len(error_locations)
        den(i) == Denominator(f, error_locations, i, 1, 1)
    IN IF \E i \in 1..s : error_locations[i] = 0 \/ den(i) = 0
       THEN [err |-> "ArithmeticException()", magnitudes |-> <<>>]
       ELSE [err |-> "",
             magnitudes |->
                Arr([i \in 1..s |->
                       LET xi_inverse == GFInverse(f, error_locations[i])
                       IN BaseFactor(f,
                             GFMultiply(f, EvaluateAt(f, error_evaluator, xi_inverse),
                                        GFInverse(f, den(i))),
                             xi_inverse)])]

\* ErrorPosition counted from buffer.length, one position too far
ErrorPositionFromLength(f, received, location) == Len(received) - GFLog(f, location)

\* the position in the buffer of an error location (line 395)
ErrorPosition(f, received, location) == Len(received) - 1 - GFLog(f, location)

RECURSIVE ApplyCorrections(_, _, _, _, _)
\* the last loop of decode, from error i on: a bad position raises after the
\* earlier corrections were written
ApplyCorrections(f, received, error_locations, error_magnitudes, i) ==
    IF i > Len(error_locations) THEN [err |-> "", received |-> received]
    ELSE LET position == ErrorPosition(f, received, error_locations[i])
         IN IF position < 0
            THEN [err |-> "Bad error location", received |-> received]
            ELSE ApplyCorrections(f,
                    [received EXCEPT ![position + 1] = GFAdd(@, error_magnitudes[i])],
                    error_locations, error_magnitudes, i + 1)

\* decoder.decode(received, ec_bytes): the error raised ("" for none) and the
\* buffer afterwards
Decode(f, received, ec_bytes) ==
    LET syndrome_coefficients == SyndromeCoefficients(f, received, ec_bytes)
        no_error == \A k \in 1..ec_bytes : syndrome_coefficients[k] = 0
    IN IF no_error THEN [err |-> "", received |-> received]
       ELSE LET sigma_omega ==
                    RunEuclideanAlgorithm(f, BuildMonomial(ec_bytes, 1),
                                          PolyNew(syndrome_coefficients), ec_bytes)
            IN IF sigma_omega.err # "" THEN [err |-> sigma_omega.err, received |-> received]
               ELSE LET locs == FindErrorLocations(f, sigma_omega.sigma)
                    IN IF locs.err # "" THEN [err |-> locs.err, received |-> received]
                       ELSE LET mags == FindErrorMagnitudes(f, sigma_omega.omega,
                                                            locs.locations)
                            IN IF mags.err # ""
                               THEN [err |-> mags.err, received |-> received]
                               ELSE ApplyCorrections(f, received, locs.locations,
                                                     mags.magnitudes, 1)

\* ------------------------------------------------------------ the program
\* (primitive, size, generator_base) of the fields the caller constructs
FieldParams ==
    { <<7, 4, 0>>, <<7, 4, 1>>, <<7, 4, 2>>, <<11, 8, 1>>, <<13, 8, 0>> }

Fields == { GenericGF(p[1], p[2], p[3]) : p \in FieldParams }

\* byte values the caller fills a buffer with
DataVals(f) == {0, f.size - 1}

\* values a corruption XORs into a byte: the byte changes and stays in the field
ErrVals(f) == {1, f.size - 1}

\* the buffers of length n the caller passes with ec: any data bytes, followed by
\* a parity region filled with one value
InputBuffers(f, n, ec) ==
    LET data_bytes == IF ec = 0 \/ n <= ec THEN 0 ELSE n - ec
    IN { Arr([i \in 1..n |-> IF i <= data_bytes THEN d[i] ELSE fill]) :
           d \in [1..data_bytes -> DataVals(f)], fill \in DataVals(f) }

VARIABLES
    field,              \* the Generic_GF shared by the encoder and the decoder
    cached_generators,  \* RS_Encoder.cached_generators
    buffer,             \* the caller's Int32Array
    ec_bytes,           \* the ec_bytes the caller uses with buffer
    outcome,            \* how the last call ended
    snapshot,           \* the caller's copy of buffer taken before the last call
    original,           \* the caller's copy of the codeword encode produced
    corrupted,          \* the positions (JavaScript indices) changed since
    twin                \* the second encoder's field and buffer

\* the variables of the codec run: encoder, decoder and the caller's buffer
codecvars == <<field, cached_generators, buffer, ec_bytes, outcome, snapshot,
               original, corrupted, twin>>

VARIABLES
    coefficients_one,   \* the contents of the module's array COEFFICIENTS_ONE
    p,                  \* the polynomial the caller holds as dividend
    d,                  \* the polynomial the caller holds as divisor
    quotient,           \* the first polynomial the last operation returned
    remainder,          \* the second polynomial the last operation returned
    before,             \* the caller's copies of p and d taken before the last call
    poly_outcome        \* how the last polynomial operation ended

\* the variables of a caller working with polynomials directly
polyvars == <<coefficients_one, p, d, quotient, remainder, before, poly_outcome>>

VARIABLES
    gf_data_matrix_256, \* the module variable _gf_data_matrix_256
    gf_qr_code_256,     \* the module variable _gf_qr_code_256
    constructions,      \* how many times the constructor ran, per caller of it
    returned,           \* the Generic_GF the last call returned
    known               \* the caller's last encode with a new RS_Encoder(returned)

\* the variables of a caller of the preset getters and the constructor
libvars == <<gf_data_matrix_256, gf_qr_code_256, constructions, returned, known>>

VARIABLES
    decoder,            \* where a decode call stands, and its local variables
    tick                \* flips with every step the decode call takes

\* the variables of a decode call followed step by step
decodervars == <<decoder, tick>>

vars == <<codecvars, polyvars, libvars, decodervars>>

NoTwin == [field |-> <<>>, buffer |-> <<>>]

\* the contents of COEFFICIENTS_ONE when the module is loaded
COEFFICIENTS_ONE == <<1>>

\* no polynomial held yet
NoPoly == [store |-> "none", coefficients |-> <<>>]

\* no decode call is being followed
NoDecoder ==
    [pc |-> "idle", r_last |-> <<>>, r |-> <<>>, t_last |-> <<>>, t |-> <<>>,
     sigma |-> <<>>, omega |-> <<>>, error_locations |-> <<>>,
     error_magnitudes |-> <<>>, i |-> 0, position |-> -1, err |-> ""]

DecoderIdle == decoder = NoDecoder /\ tick = 0

\* the caller has done nothing with polynomials
PolyIdle ==
    /\ coefficients_one = COEFFICIENTS_ONE
    /\ p = NoPoly
    /\ d = NoPoly
    /\ quotient = <<>>
    /\ remainder = <<>>
    /\ before = [p |-> <<>>, d |-> <<>>]
    /\ poly_outcome = "idle"

\* the caller has encoded nothing with the field it was handed
NoEncode == [data |-> <<>>, ec_bytes |-> 0, buffer |-> <<>>]

\* the module just loaded: both preset variables are null, nothing constructed
LibIdle ==
    /\ gf_data_matrix_256 = <<>>
    /\ gf_qr_code_256 = <<>>
    /\ constructions = [data_matrix |-> 0, qr_code |-> 0, caller |-> 0]
    /\ returned = <<>>
    /\ known = NoEncode

Init ==
    /\ field \in Fields
    /\ cached_generators = NewCache
    /\ buffer = <<>>
    /\ ec_bytes = 0
    /\ outcome = "new"
    /\ snapshot = <<>>
    /\ original = <<>>
    /\ corrupted = {}
    /\ twin = NoTwin
    /\ PolyIdle
    /\ LibIdle
    /\ DecoderIdle

\* the caller allocates a buffer and fills it, for a call with ec
FillCall ==
    /\ outcome \in {"new", "encoded", "encode_failed"}
    /\ \E n \in 1..MaxLen :
         \E ec \in 0..(n + 1) :
           \E b \in InputBuffers(field, n, ec) :
             /\ buffer' = b
             /\ snapshot' = b
             /\ ec_bytes' = ec
    /\ outcome' = "filled"
    /\ original' = <<>>
    /\ corrupted' = {}
    /\ twin' = NoTwin
    /\ UNCHANGED <<field, cached_generators, polyvars, libvars, decodervars>>

\* encoder.encode(buffer, ec_bytes)
EncodeCall ==
    /\ outcome = "filled"
    /\ LET res == Encode(field, cached_generators, buffer, ec_bytes)
       IN /\ buffer' = res.data
          /\ cached_generators' = res.cache
          /\ outcome' = IF res.err = "" THEN "encoded" ELSE "encode_failed"
          /\ original' = IF res.err = "" THEN res.data ELSE <<>>
    /\ UNCHANGED <<field, ec_bytes, snapshot, corrupted, twin, polyvars, libvars, decodervars>>

\* the caller encodes the same input with a new RS_Encoder on another field of
\* the same size
TwinEncodeCall ==
    /\ outcome = "encoded"
    /\ \E g \in Fields :
         /\ g # field
         /\ g.size = field.size
         /\ twin' = [field |-> <<g.primitive, g.size, g.generator_base>>,
                     buffer |-> Encode(g, NewCache, snapshot, ec_bytes).data]
    /\ outcome' = "twin_encoded"
    /\ UNCHANGED <<field, cached_generators, buffer, ec_bytes, snapshot,
                   original, corrupted, polyvars, libvars, decodervars>>

\* the caller overwrites one more position of the codeword with another value;
\* the encoder that made the codeword is out of scope by then, the next one is new
CorruptCall ==
    /\ outcome \in {"encoded", "corrupted"}
    /\ Cardinality(corrupted) < MaxErrors
    /\ \E pos \in (0..(Len(buffer) - 1)) \ corrupted :
         \E delta \in ErrVals(field) :
           /\ buffer' = [buffer EXCEPT ![pos + 1] = BitXor(@, delta)]
           /\ corrupted' = corrupted \cup {pos}
    /\ outcome' = "corrupted"
    /\ snapshot' = buffer'
    /\ cached_generators' = NewCache
    /\ UNCHANGED <<field, ec_bytes, original, twin, polyvars, libvars, decodervars>>

\* decoder.decode(buffer, ec_bytes); a clean codeword may be decoded again
DecodeCall ==
    /\ \/ outcome \in {"encoded", "corrupted"}
       \/ outcome = "decoded" /\ corrupted = {}
    /\ LET res == Decode(field, buffer, ec_bytes)
       IN /\ buffer' = res.received
          /\ outcome' = IF res.err = "" THEN "decoded" ELSE "decode_failed"
    /\ snapshot' = buffer
    /\ UNCHANGED <<field, cached_generators, ec_bytes, original, corrupted, twin,
                   polyvars, libvars, decodervars>>

Next == FillCall \/ EncodeCall \/ TwinEncodeCall \/ CorruptCall \/ DecodeCall

Spec == Init /\ [][Next]_vars

\* ------------------------------------------- a caller holding polynomials
\* coefficient values the caller builds polynomials from
CoefVals(f) == {0, 1, f.size - 1}

\* what field.build_monomial and add_or_subtract can give the caller: every
\* coefficient array of up to MaxPolyLen entries, as the constructor keeps it
BuiltPolys(f) ==
    { PolyNew(c) : c \in UNION { [1..n -> CoefVals(f)] : n \in 1..MaxPolyLen } }

\* the Generic_GF_Poly objects the caller can get hold of: field.zero and
\* field.one, whose coefficients are the module's shared arrays, and built ones
Held(f, one) ==
    {[store |-> "zero", coefficients |-> COEFFICIENTS_ZERO],
     [store |-> "one", coefficients |-> one]}
    \cup {[store |-> "own", coefficients |-> c] : c \in BuiltPolys(f)}

\* the caller takes a polynomial as p
BuildDividend ==
    /\ poly_outcome = "idle"
    /\ p' \in Held(field, coefficients_one)
    /\ poly_outcome' = "p_built"
    /\ UNCHANGED <<coefficients_one, d, quotient, remainder, before>>
    /\ UNCHANGED <<codecvars, libvars, decodervars>>

\* the caller takes a polynomial as d, keeping p
BuildDivisor ==
    /\ poly_outcome \in {"p_built", "divided"}
    /\ d' \in Held(field, coefficients_one)
    /\ poly_outcome' = "built"
    /\ quotient' = <<>>
    /\ remainder' = <<>>
    /\ before' = [p |-> <<>>, d |-> <<>>]
    /\ UNCHANGED <<coefficients_one, p>>
    /\ UNCHANGED <<codecvars, libvars, decodervars>>

\* the caller uses the former dividend as divisor and the divisor as dividend
SwapOperands ==
    /\ poly_outcome = "divided"
    /\ p' = d
    /\ d' = p
    /\ poly_outcome' = "built"
    /\ quotient' = <<>>
    /\ remainder' = <<>>
    /\ before' = [p |-> <<>>, d |-> <<>>]
    /\ UNCHANGED coefficients_one
    /\ UNCHANGED <<codecvars, libvars, decodervars>>

\* p.divide(d): the loop writes each remainder into p's own array, which is
\* COEFFICIENTS_ONE when p is field.one (and then d's too when d is field.one)
DivideCall ==
    /\ poly_outcome \in {"built", "divided"}
    /\ before' = [p |-> p.coefficients, d |-> d.coefficients]
    /\ LET res == Divide(field, p.coefficients, d.coefficients)
       IN IF res.err # ""
          THEN /\ poly_outcome' = "divide_failed"
               /\ quotient' = <<>>
               /\ remainder' = <<>>
               /\ UNCHANGED <<coefficients_one, p, d>>
          ELSE /\ poly_outcome' = "divided"
               /\ quotient' = res.quotient
               /\ remainder' = res.remainder
               /\ p' = [p EXCEPT !.coefficients = res.dividend]
               /\ coefficients_one' =
                     IF p.store = "one" THEN res.dividend ELSE coefficients_one
               /\ d' = IF p.store = "one" /\ d.store = "one"
                       THEN [d EXCEPT !.coefficients = res.dividend] ELSE d
    /\ UNCHANGED <<codecvars, libvars, decodervars>>

\* p.add_or_subtract(d), without a buffer
AddCall ==
    /\ poly_outcome \in {"built", "divided"}
    /\ before' = [p |-> p.coefficients, d |-> d.coefficients]
    /\ quotient' = AddOrSubtract(p.coefficients, d.coefficients)
    /\ remainder' = <<>>
    /\ poly_outcome' = "added"
    /\ UNCHANGED <<coefficients_one, p, d>>
    /\ UNCHANGED <<codecvars, libvars, decodervars>>

\* p.multiply(d)
MultiplyCall ==
    /\ poly_outcome \in {"built", "divided"}
    /\ before' = [p |-> p.coefficients, d |-> d.coefficients]
    /\ quotient' = MultiplyPoly(field, p.coefficients, d.coefficients)
    /\ remainder' = <<>>
    /\ poly_outcome' = "multiplied"
    /\ UNCHANGED <<coefficients_one, p, d>>
    /\ UNCHANGED <<codecvars, libvars, decodervars>>

PolyNext ==
    \/ BuildDividend
    \/ BuildDivisor
    \/ SwapOperands
    \/ DivideCall
    \/ AddCall
    \/ MultiplyCall

PolySpec == Init /\ [][PolyNext]_vars

\* ------------------------------ a caller of the presets and the constructor
\* a Generic_GF instance: id tells instances apart, the n-th one constructed
\* has id n
Instance(id, f) == [id |-> id, field |-> f]

\* what new Generic_GF(0x012d, 256, 1) builds; 0x012d = 301
DataMatrixField == GenericGF(301, 256, 1)

\* what new Generic_GF(0x011d, 256, 0) builds; 0x011d = 285
QrCodeField == GenericGF(285, 256, 0)

\* GF_DATA_MATRIX_256 constructing a field on every call
GF_DATA_MATRIX_256_Always(slot, id) == <<Instance(id, DataMatrixField)>>

\* GF_DATA_MATRIX_256(): slot is _gf_data_matrix_256 (<<>> for null) and the
\* result is the variable afterwards, whose one element the call returns
GF_DATA_MATRIX_256(slot, id) ==
    IF slot = <<>> THEN <<Instance(id, DataMatrixField)>> ELSE slot

\* GF_QR_CODE_256(), in the same way on _gf_qr_code_256
GF_QR_CODE_256(slot, id) ==
    IF slot = <<>> THEN <<Instance(id, QrCodeField)>> ELSE slot

\* the id the next constructed instance gets
NextId ==
    constructions.data_matrix + constructions.qr_code + constructions.caller + 1

\* (primitive, size, generator_base) the caller passes to new Generic_GF itself;
\* 5, 15 and 31 are not primitive polynomials
ConstructorParams ==
    { <<7, 4, 0>>, <<5, 4, 1>>, <<11, 8, 1>>, <<13, 8, 0>>, <<15, 8, 0>>,
      <<19, 16, 1>>, <<25, 16, 0>>, <<31, 16, 0>> }

\* the messages of the two shortest known-answer tests, each with the parity
\* length it uses
KnownMessages ==
    { <<<<142, 164, 186>>, 5>>,
      <<<<16, 32, 12, 86, 97, 128, 236, 17, 236, 17, 236, 17, 236, 17, 236, 17>>,
        10>> }

\* const field = GF_DATA_MATRIX_256()
DataMatrixCall ==
    /\ gf_data_matrix_256' = GF_DATA_MATRIX_256(gf_data_matrix_256, NextId)
    /\ constructions' =
          [constructions EXCEPT !.data_matrix =
              IF gf_data_matrix_256' # gf_data_matrix_256 THEN @ + 1 ELSE @]
    /\ returned' = gf_data_matrix_256'
    /\ known' = NoEncode
    /\ UNCHANGED gf_qr_code_256
    /\ UNCHANGED <<codecvars, polyvars, decodervars>>

\* const field = GF_QR_CODE_256()
QrCodeCall ==
    /\ gf_qr_code_256' = GF_QR_CODE_256(gf_qr_code_256, NextId)
    /\ constructions' =
          [constructions EXCEPT !.qr_code =
              IF gf_qr_code_256' # gf_qr_code_256 THEN @ + 1 ELSE @]
    /\ returned' = gf_qr_code_256'
    /\ known' = NoEncode
    /\ UNCHANGED gf_data_matrix_256
    /\ UNCHANGED <<codecvars, polyvars, decodervars>>

\* const field = new Generic_GF(primitive, size, generator_base)
ConstructCall ==
    /\ constructions.caller < MaxConstructed
    /\ \E c \in ConstructorParams :
         returned' = <<Instance(NextId, GenericGF(c[1], c[2], c[3]))>>
    /\ constructions' = [constructions EXCEPT !.caller = @ + 1]
    /\ known' = NoEncode
    /\ UNCHANGED <<gf_data_matrix_256, gf_qr_code_256>>
    /\ UNCHANGED <<codecvars, polyvars, decodervars>>

\* new RS_Encoder(field).encode(msg, ec) on the GF(256) field just returned,
\* msg being a test message followed by ec zeros
KnownEncodeCall ==
    /\ returned # <<>>
    /\ returned[1].field.size = 256
    /\ known = NoEncode
    /\ \E m \in KnownMessages :
         known' = [data |-> m[1], ec_bytes |-> m[2],
                   buffer |-> Encode(returned[1].field, NewCache,
                                     m[1] \o [i \in 1..m[2] |-> 0], m[2]).data]
    /\ UNCHANGED <<gf_data_matrix_256, gf_qr_code_256, constructions, returned>>
    /\ UNCHANGED <<codecvars, polyvars, decodervars>>

\* the module just loaded and no encoder or decoder made
LibInit ==
    /\ field = <<>>
    /\ cached_generators = NewCache
    /\ buffer = <<>>
    /\ ec_bytes = 0
    /\ outcome = "new"
    /\ snapshot = <<>>
    /\ original = <<>>
    /\ corrupted = {}
    /\ twin = NoTwin
    /\ PolyIdle
    /\ LibIdle
    /\ DecoderIdle

LibNext == DataMatrixCall \/ QrCodeCall \/ ConstructCall \/ KnownEncodeCall

LibSpec == LibInit /\ [][LibNext]_vars

\* ------------------------------------------- a decode call, step by step
\* byte values of the buffers handed to decode
ReceivedVals(f) == {0, 1, f.size - 1}

\* the caller hands a buffer to decoder.decode(buffer, ec_bytes)
ReceiveCall ==
    /\ decoder.pc = "idle"
    /\ \E n \in 1..MaxReceived :
         \E ec \in 1..(MaxReceived + 1) :
           \E b \in [1..n -> ReceivedVals(field)] :
             /\ buffer' = Arr(b)
             /\ snapshot' = Arr(b)
             /\ ec_bytes' = ec
    /\ decoder' = [NoDecoder EXCEPT !.pc = "called"]
    /\ UNCHANGED <<field, cached_generators, outcome, original, corrupted, twin,
                   polyvars, libvars, tick>>

\* lines 367-389 of decode and the start of run_euclidean_algorithm (lines
\* 411-422): the syndromes, the early return, the operands of the loop
SyndromeStep ==
    /\ decoder.pc = "called"
    /\ LET syndrome_coefficients == SyndromeCoefficients(field, buffer, ec_bytes)
           no_error == \A k \in 1..ec_bytes : syndrome_coefficients[k] = 0
           a == BuildMonomial(ec_bytes, 1)
           b == PolyNew(syndrome_coefficients)
       IN decoder' =
            IF no_error THEN [decoder EXCEPT !.pc = "returned"]
            ELSE [decoder EXCEPT !.pc = "euclid",
                                 !.r_last = IF Degree(a) < Degree(b) THEN b ELSE a,
                                 !.r = IF Degree(a) < Degree(b) THEN a ELSE b,
                                 !.t_last = COEFFICIENTS_ZERO,
                                 !.t = COEFFICIENTS_ONE]
    /\ tick' = 1 - tick
    /\ UNCHANGED <<codecvars, polyvars, libvars>>

\* one pass through the body of the outer while loop (lines 424-449)
EuclidStep ==
    /\ decoder.pc = "euclid"
    /\ EuclidContinues(ec_bytes, decoder.r)
    /\ LET pass == EuclidIteration(field, decoder.r_last, decoder.r,
                                   decoder.t_last, decoder.t)
       IN decoder' = [decoder EXCEPT !.pc = IF pass.err # "" THEN "raised" ELSE "euclid",
                                     !.err = pass.err,
                                     !.r_last = pass.r_last, !.r = pass.r,
                                     !.t_last = pass.t_last, !.t = pass.t]
    /\ tick' = 1 - tick
    /\ UNCHANGED <<codecvars, polyvars, libvars>>

\* the loop condition fails: lines 451-459, sigma and omega
EuclidExit ==
    /\ decoder.pc = "euclid"
    /\ ~EuclidContinues(ec_bytes, decoder.r)
    /\ LET sigma_omega == EuclidFinish(field, decoder.t, decoder.r)
       IN decoder' = [decoder EXCEPT
                        !.pc = IF sigma_omega.err # "" THEN "raised" ELSE "locate",
                        !.err = sigma_omega.err,
                        !.sigma = sigma_omega.sigma, !.omega = sigma_omega.omega]
    /\ tick' = 1 - tick
    /\ UNCHANGED <<codecvars, polyvars, libvars>>

\* line 392: find_error_locations(sigma)
LocateStep ==
    /\ decoder.pc = "locate"
    /\ LET locs == FindErrorLocations(field, decoder.sigma)
       IN decoder' = [decoder EXCEPT
                        !.pc = IF locs.err # "" THEN "raised" ELSE "magnitudes",
                        !.err = locs.err,
                        !.error_locations = locs.locations]
    /\ tick' = 1 - tick
    /\ UNCHANGED <<codecvars, polyvars, libvars>>

\* line 393: find_error_magnitudes(omega, error_locations)
MagnitudeStep ==
    /\ decoder.pc = "magnitudes"
    /\ LET mags == FindErrorMagnitudes(field, decoder.omega, decoder.error_locations)
       IN decoder' = [decoder EXCEPT
                        !.pc = IF mags.err # "" THEN "raised" ELSE "correct",
                        !.err = mags.err,
                        !.error_magnitudes = mags.magnitudes,
                        !.i = 0]
    /\ tick' = 1 - tick
    /\ UNCHANGED <<codecvars, polyvars, libvars>>

\* one pass through the last loop of decode (lines 394-403), i a JavaScript
\* index: the position check and the write; past the last error decode returns
CorrectStep ==
    /\ decoder.pc = "correct"
    /\ IF decoder.i >= Len(decoder.error_locations)
       THEN /\ decoder' = [decoder EXCEPT !.pc = "returned"]
            /\ UNCHANGED buffer
       ELSE LET position ==
                    ErrorPosition(field, buffer, decoder.error_locations[decoder.i + 1])
            IN IF position < 0
               THEN /\ decoder' = [decoder EXCEPT !.pc = "raised",
                                                  !.err = "Bad error location",
                                                  !.position = position]
                    /\ UNCHANGED buffer
               ELSE /\ buffer' = [buffer EXCEPT ![position + 1] =
                                      GFAdd(@, decoder.error_magnitudes[decoder.i + 1])]
                    /\ decoder' = [decoder EXCEPT !.i = decoder.i + 1,
                                                  !.position = position]
    /\ tick' = 1 - tick
    /\ UNCHANGED <<field, cached_generators, ec_bytes, outcome, snapshot, original,
                   corrupted, twin, polyvars, libvars>>

\* the call has ended and the caller lets go of the buffer
ReleaseCall ==
    /\ decoder.pc \in {"returned", "raised"}
    /\ decoder' = NoDecoder
    /\ tick' = 0
    /\ buffer' = <<>>
    /\ snapshot' = <<>>
    /\ ec_bytes' = 0
    /\ UNCHANGED <<field, cached_generators, outcome, original, corrupted, twin,
                   polyvars, libvars>>

DecodeNext ==
    \/ ReceiveCall
    \/ ReleaseCall
    \/ SyndromeStep
    \/ EuclidStep
    \/ EuclidExit
    \/ LocateStep
    \/ MagnitudeStep
    \/ CorrectStep

\* a decoder on each field, every call followed step by step
DecodeSpec == Init /\ [][DecodeNext]_vars

\* a decode call has started and has neither returned nor raised
DecodeRunning == decoder.pc \in {"called", "euclid", "locate", "magnitudes", "correct"}

\* a call that has started takes its next step: the steps of decode are one
\* thread's, nothing in them waits. Every step flips tick and nothing else
\* does while a call runs, and each step is its guard on decoder.pc followed by
\* assignments, so the condition is weak fairness of the steps.
DecodeLiveSpec == DecodeSpec /\ WF_tick(DecodeRunning /\ tick' = 1 - tick)

\* ------------------------------------------------------------- the claims
\* the data region [0, length - ec_bytes) and the parity region after it
DataRegion(b, ec) == SubSeq(b, 1, Len(b) - ec)
ParityRegion(b, ec) == SubSeq(b, Len(b) - ec + 1, Len(b))
AllZero(b) == \A i \in 1..Len(b) : b[i] = 0

\* decode has just ended, normally or with an error
DecodeEnded == outcome \in {"decoded", "decode_failed"}

\* the correction capacity floor(ec_bytes / 2) is not exceeded
WithinCapacity == Cardinality(corrupted) <= ec_bytes \div 2

\* the block is no longer than the field allows and the base is one the
\* decoder's magnitude formula handles
StandardCode == field.generator_base \in {0, 1} /\ Len(buffer) <= field.size - 1

RECURSIVE GFPow(_, _, _)
\* a to the power e in the field, by repeated multiplication
GFPow(f, a, e) == IF e = 0 THEN 1 ELSE GFMultiply(f, a, GFPow(f, a, e - 1))

RECURSIVE PolyAt(_, _, _, _)
\* the value at a of the polynomial a buffer spells, term by term from index k
PolyAt(f, b, a, k) ==
    IF k > Len(b) THEN 0
    ELSE GFAdd(GFMultiply(f, b[k], GFPow(f, a, Len(b) - k)), PolyAt(f, b, a, k + 1))

\* all ec syndromes of a buffer are zero
SyndromesZero(f, b, ec) ==
    \A i \in 0..(ec - 1) : PolyAt(f, b, GFExp(f, i + f.generator_base), 1) = 0

\* C1 as stated: after a corruption of at most floor(ec_bytes / 2) positions of
\* a codeword, for any field and any buffer length, decode returns normally and
\* the buffer is the codeword again.
C1_CorrectsAnyCode ==
    DecodeEnded /\ WithinCapacity => outcome = "decoded" /\ buffer = original

\* C1 amended: the same, for a field with generator base 0 or 1 and a buffer no
\* longer than size - 1.
C1_CorrectsStandardCode ==
    DecodeEnded /\ WithinCapacity /\ StandardCode
        => outcome = "decoded" /\ buffer = original

\* C1 witness: two corrupted positions of a standard code were repaired.
C1_Witness ==
    /\ outcome = "decoded"
    /\ StandardCode
    /\ Cardinality(corrupted) = 2
    /\ WithinCapacity
    /\ snapshot # original
    /\ buffer = original

\* C2: decode right after a successful encode returns normally and the data
\* region is the data the caller filled in (snapshot holds the filled buffer
\* until decode is called).
C2_RoundTrip ==
    [][outcome = "encoded" /\ DecodeEnded'
         => /\ outcome' = "decoded"
            /\ DataRegion(buffer', ec_bytes) = DataRegion(snapshot, ec_bytes)]_vars

\* C2 witness: a round trip of non-zero data with non-zero parity has ended.
C2_Witness ==
    /\ outcome = "decoded"
    /\ corrupted = {}
    /\ snapshot = original
    /\ ec_bytes >= 2
    /\ ~AllZero(DataRegion(buffer, ec_bytes))
    /\ ~AllZero(ParityRegion(buffer, ec_bytes))

\* C3: a successful encode leaves the length and the data region as they were
\* and overwrites the whole parity region: the result is the one obtained from
\* the same buffer with a cleared parity region.
C3_SystematicFrame ==
    [][outcome = "filled" /\ outcome' = "encoded"
         => /\ Len(buffer') = Len(buffer)
            /\ DataRegion(buffer', ec_bytes) = DataRegion(buffer, ec_bytes)
            /\ buffer' = Encode(field, cached_generators,
                                DataRegion(buffer, ec_bytes)
                                    \o [i \in 1..ec_bytes |-> 0],
                                ec_bytes).data]_vars

\* C3 witness: encode ended on a buffer whose parity region held non-zero bytes,
\* with a remainder short enough to need a leading zero.
C3_Witness ==
    /\ outcome = "encoded"
    /\ ~AllZero(ParityRegion(snapshot, ec_bytes))
    /\ ~AllZero(ParityRegion(buffer, ec_bytes))
    /\ buffer[Len(buffer) - ec_bytes + 1] = 0

\* C4: after a corruption of more than floor(ec_bytes / 2) positions, decode
\* never returns normally with the original codeword in the buffer.
C4_BeyondCapacityNeverRestores ==
    DecodeEnded /\ ~WithinCapacity => ~(outcome = "decoded" /\ buffer = original)

\* C4 witness: beyond capacity, decode returned normally after changing the
\* buffer, which is not the original codeword.
C4_Witness ==
    /\ outcome = "decoded"
    /\ ~WithinCapacity
    /\ buffer # snapshot
    /\ buffer # original

\* C5: decode raises whenever more than floor(ec_bytes / 2) positions are
\* corrupted.
C5_ThrowsBeyondCapacity ==
    DecodeEnded /\ ~WithinCapacity => outcome = "decode_failed"

\* C6: decode of a buffer whose ec_bytes syndromes are all zero returns normally
\* and leaves the buffer as it was; decoding it again does the same.
C6_CleanCodewordNoOp ==
    DecodeEnded /\ SyndromesZero(field, snapshot, ec_bytes)
        => outcome = "decoded" /\ buffer = snapshot

\* C6 witness: decode ended on a buffer that is not the encoded codeword but has
\* zero syndromes.
C6_Witness ==
    /\ outcome = "decoded"
    /\ corrupted # {}
    /\ SyndromesZero(field, snapshot, ec_bytes)
    /\ buffer = snapshot

\* C7: whatever earlier calls did to the encoder's cache, encode gives the
\* buffer a new RS_Encoder for the field gives for the same input.
C7_CacheHistoryIndependent ==
    outcome = "encoded"
        => buffer = Encode(field, NewCache, snapshot, ec_bytes).data

\* C7 witness: encode ended on an encoder whose cache already held generators of
\* higher degree, and wrote non-zero parity.
C7_Witness ==
    /\ outcome = "encoded"
    /\ Len(cached_generators) > ec_bytes + 1
    /\ ~AllZero(ParityRegion(buffer, ec_bytes))

\* C8: encode with ec_bytes = 0 or with no data byte raises and leaves the
\* buffer and the generator cache as they were.
C8_EncodeValidation ==
    [][outcome = "filled" /\ (ec_bytes = 0 \/ Len(buffer) - ec_bytes <= 0)
         => /\ outcome' = "encode_failed"
            /\ buffer' = buffer
            /\ cached_generators' = cached_generators]_vars

\* C8 witness: encode raised for want of data bytes on an encoder with a grown
\* cache.
C8_Witness ==
    /\ outcome = "encode_failed"
    /\ ec_bytes > 0
    /\ Len(buffer) - ec_bytes <= 0
    /\ Len(cached_generators) > 1
    /\ Len(cached_generators) <= ec_bytes

\* C9 as stated: the two encoders leave the same data region and write parity
\* regions that differ, for every data.
C9_ParityAlwaysDiffers ==
    outcome = "twin_encoded"
        => /\ DataRegion(twin.buffer, ec_bytes) = DataRegion(buffer, ec_bytes)
           /\ ParityRegion(twin.buffer, ec_bytes) # ParityRegion(buffer, ec_bytes)

\* C9 amended: the two encoders leave the data region the caller filled in, and
\* for all-zero data both write all-zero parity, so the parity regions are equal
\* there.
C9_SameDataZeroParity ==
    outcome = "twin_encoded"
        => /\ DataRegion(twin.buffer, ec_bytes) = DataRegion(snapshot, ec_bytes)
           /\ DataRegion(buffer, ec_bytes) = DataRegion(snapshot, ec_bytes)
           /\ AllZero(DataRegion(snapshot, ec_bytes))
                => /\ AllZero(ParityRegion(buffer, ec_bytes))
                   /\ AllZero(ParityRegion(twin.buffer, ec_bytes))

\* C9 witness: the two encoders wrote different parity for the same data.
C9_Witness ==
    /\ outcome = "twin_encoded"
    /\ DataRegion(twin.buffer, ec_bytes) = DataRegion(buffer, ec_bytes)
    /\ ParityRegion(twin.buffer, ec_bytes) # ParityRegion(buffer, ec_bytes)

\* C10: encode of all-zero data writes 0 to every position of the parity
\* region, whatever it held.
C10_ZeroDataZeroParity ==
    outcome = "encoded" /\ AllZero(DataRegion(snapshot, ec_bytes))
        => AllZero(ParityRegion(buffer, ec_bytes))

\* C10 witness: encode ended on all-zero data whose parity region held non-zero
\* bytes.
C10_Witness ==
    /\ outcome = "encoded"
    /\ AllZero(DataRegion(snapshot, ec_bytes))
    /\ ~AllZero(ParityRegion(snapshot, ec_bytes))
    /\ AllZero(buffer)

\* the coefficient of x^k in the polynomial a coefficient array spells
CoefficientOf(c, k) == IF k < Len(c) THEN c[Len(c) - k] ELSE 0

RECURSIVE ProductCoefficient(_, _, _, _, _)
\* the coefficient of x^k in a * b, summed over the pairs (i, k - i) from i on
ProductCoefficient(f, a, b, k, i) ==
    IF i > k THEN 0
    ELSE GFAdd(GFMultiply(f, CoefficientOf(a, i), CoefficientOf(b, k - i)),
               ProductCoefficient(f, a, b, k, i + 1))

\* a coefficient array is in normal form: [0], or a non-zero leading coefficient
NormalForm(c) == Len(c) = 1 \/ (Len(c) > 1 /\ c[1] # 0)

\* a polynomial operation has just returned normally
PolyOpEnded == poly_outcome \in {"divided", "added", "multiplied"}

\* C15: whatever the caller does with field.zero, field.one and built
\* polynomials, divide included, the field's tables are the ones the constructor
\* built and field.one still has the coefficients [1].
C15_FieldImmutable ==
    /\ field.exp_table
         = GenericGF(field.primitive, field.size, field.generator_base).exp_table
    /\ field.log_table
         = GenericGF(field.primitive, field.size, field.generator_base).log_table
    /\ coefficients_one = <<1>>

\* C16: after p.divide(d), p.add_or_subtract(d) or p.multiply(d) has returned,
\* the coefficients of p and of d are what they were before the call.
C16_OperandsUnchanged ==
    PolyOpEnded => p.coefficients = before.p /\ d.coefficients = before.d

\* C17: every polynomial the caller holds or was handed, the dividend after
\* divide included, is [0] or has a non-zero leading coefficient.
C17_NormalForm ==
    /\ p # NoPoly => NormalForm(p.coefficients)
    /\ d # NoPoly => NormalForm(d.coefficients)
    /\ quotient # <<>> => NormalForm(quotient)
    /\ remainder # <<>> => NormalForm(remainder)

\* C18: p.divide(d) returns when d is not the zero polynomial and raises when
\* it is; the (q, r) it returns satisfy q * d + r = p, coefficient by
\* coefficient for the values p and d had before the call, and r is the zero
\* polynomial or of degree less than d's (degrees taken of the values, leading
\* zeros not counted).
C18_DivisionWithRemainder ==
    /\ poly_outcome = "divide_failed" => AllZero(before.d)
    /\ poly_outcome = "divided"
         => /\ ~AllZero(before.d)
            /\ \A k \in 0..(2 * MaxPolyLen) :
                  GFAdd(ProductCoefficient(field, quotient, before.d, k, 0),
                        CoefficientOf(remainder, k)) = CoefficientOf(before.p, k)
            /\ \/ AllZero(remainder)
               \/ Degree(PolyNew(remainder)) < Degree(PolyNew(before.d))

\* the field a caller was handed has these constructor arguments
ReturnedIs(primitive, size, generator_base) ==
    /\ returned # <<>>
    /\ returned[1].field.primitive = primitive
    /\ returned[1].field.size = size
    /\ returned[1].field.generator_base = generator_base

\* C11: on the field of primitive 0x012D (301), size 256, generator base 1,
\* encode of the data [142, 164, 186] with ec_len = 5 writes the parity
\* [114, 25, 5, 88, 102].
C11_DataMatrixKnownAnswer ==
    /\ ReturnedIs(301, 256, 1)
    /\ known.data = <<142, 164, 186>>
    /\ known.ec_bytes = 5
    => known.buffer = <<142, 164, 186, 114, 25, 5, 88, 102>>

\* C11 witness: that encode has run on the Data Matrix preset.
C11_Witness ==
    /\ ReturnedIs(301, 256, 1)
    /\ returned = gf_data_matrix_256
    /\ known.data = <<142, 164, 186>>
    /\ known.ec_bytes = 5
    /\ Len(known.buffer) = 8

\* C12: on the field of primitive 0x011D (285), size 256, generator base 0,
\* encode of the 16-byte block 10 20 0C 56 61 80 EC 11 EC 11 EC 11 EC 11 EC 11
\* with ec_len = 10 writes the parity A5 24 D4 C1 ED 36 C7 87 2C 55.
C12_QrCodeKnownAnswer ==
    /\ ReturnedIs(285, 256, 0)
    /\ known.data = <<16, 32, 12, 86, 97, 128, 236, 17, 236, 17, 236, 17, 236, 17,
                      236, 17>>
    /\ known.ec_bytes = 10
    => /\ DataRegion(known.buffer, 10) = known.data
       /\ ParityRegion(known.buffer, 10)
            = <<165, 36, 212, 193, 237, 54, 199, 135, 44, 85>>

\* C12 witness: that encode has run on the QR Code preset.
C12_Witness ==
    /\ ReturnedIs(285, 256, 0)
    /\ returned = gf_qr_code_256
    /\ known.ec_bytes = 10
    /\ Len(known.data) = 16
    /\ Len(known.buffer) = 26

\* C13: each preset is constructed at most once; once built, a preset variable
\* keeps its instance, and every call of a getter returns that instance, which
\* has the preset's constructor arguments; the two instances are distinct, and
\* a call of one getter leaves the other preset as it was.
C13_PresetSingletons ==
    [][/\ constructions'.data_matrix <= 1
       /\ constructions'.qr_code <= 1
       /\ gf_data_matrix_256 # <<>> => gf_data_matrix_256' = gf_data_matrix_256
       /\ gf_qr_code_256 # <<>> => gf_qr_code_256' = gf_qr_code_256
       /\ DataMatrixCall
            => /\ returned' = gf_data_matrix_256'
               /\ ReturnedIs(301, 256, 1)'
               /\ gf_qr_code_256' = gf_qr_code_256
               /\ constructions'.qr_code = constructions.qr_code
       /\ QrCodeCall
            => /\ returned' = gf_qr_code_256'
               /\ ReturnedIs(285, 256, 0)'
               /\ gf_data_matrix_256' = gf_data_matrix_256
               /\ constructions'.data_matrix = constructions.data_matrix
       /\ gf_data_matrix_256' # <<>> /\ gf_qr_code_256' # <<>>
            => gf_data_matrix_256'[1].id # gf_qr_code_256'[1].id]_vars

\* C13 witness: the Data Matrix preset was built first, the QR Code preset
\* second, and a later call of GF_DATA_MATRIX_256 returned the first instance.
C13_Witness ==
    /\ gf_data_matrix_256 # <<>>
    /\ gf_qr_code_256 # <<>>
    /\ gf_data_matrix_256[1].id = 1
    /\ gf_qr_code_256[1].id = 2
    /\ returned = gf_data_matrix_256
    /\ constructions.data_matrix = 1
    /\ constructions.qr_code = 1

\* (polynomial, size) pairs whose polynomial is primitive over GF(2)
PrimitivePolynomials ==
    { <<7, 4>>, <<11, 8>>, <<13, 8>>, <<19, 16>>, <<25, 16>>, <<285, 256>>,
      <<301, 256>> }

\* the table invariant of a field
TableInvariant(f) ==
    /\ \A x \in 1..(f.size - 1) : f.exp_table[f.log_table[x]] = x
    /\ \A i \in 0..(f.size - 2) : f.exp_table[i] \in 1..(f.size - 1)
    /\ Cardinality({ f.exp_table[i] : i \in 0..(f.size - 2) }) = f.size - 1
    /\ f.exp_table[f.size - 1] = 1
    /\ f.exp_table[0] = 1

\* the Generic_GF instances that exist
Instances ==
    { s[1] : s \in {gf_data_matrix_256, gf_qr_code_256, returned} \ {<<>>} }

\* C14: every field constructed with a primitive polynomial satisfies
\* exp_table[log_table[x]] = x for x in [1, size), has pairwise distinct
\* non-zero entries in exp_table[0 .. size-2], and exp_table[size-1] =
\* exp_table[0] = 1.
C14_TableInvariant ==
    \A inst \in Instances :
        <<inst.field.primitive, inst.field.size>> \in PrimitivePolynomials
            => TableInvariant(inst.field)

\* C14 witness: the caller constructed GF(16) with the primitive polynomial
\* x^4 + x^3 + 1 (25) while both GF(256) presets exist.
C14_Witness ==
    /\ ReturnedIs(25, 16, 0)
    /\ gf_data_matrix_256 # <<>>
    /\ gf_qr_code_256 # <<>>
    /\ TableInvariant(returned[1].field)

\* the primitive element to the power e: the exponents repeat with period size - 1
FieldPower(f, e) == f.exp_table[e % (f.size - 1)]

\* the coefficients, highest degree first, of g * (x + root), worked out
\* coefficient by coefficient
TimesRootFactor(f, g, root) ==
    [i \in 1..(Len(g) + 1) |->
        GFAdd(IF i <= Len(g) THEN g[i] ELSE 0,
              IF i >= 2 THEN GFMultiply(f, root, g[i - 1]) ELSE 0)]

\* the entries of a cache from index 1 up to index last are each the one before
\* times (x + FieldPower(k + generator_base)), k the index of the one before:
\* with [1] at index 0, the entry at index dd is the product over k in [0, dd)
GeneratorProducts(f, cache, last) ==
    \A dd \in 1..last :
        cache[dd + 1]
          = TimesRootFactor(f, cache[dd], FieldPower(f, dd - 1 + f.generator_base))

\* entry at index d of a cache is monic of degree d
MonicOfDegree(cache, dd) == Len(cache[dd + 1]) = dd + 1 /\ cache[dd + 1][1] = 1

\* a cache is a prefix of another: nothing removed, nothing replaced
CacheKept(old, new) ==
    Len(new) >= Len(old) /\ \A i \in 1..Len(old) : new[i] = old[i]

\* C19 as stated: the cache is never empty, starts with [1], holds at every
\* index d the monic polynomial of degree d that is the product over k in
\* [0, d) of (x + exp(k + generator_base)); an encode call removes and replaces
\* nothing, and a successful one leaves entries for every degree 0..ec_len.
C19_CacheHoldsGenerators ==
    [][/\ Len(cached_generators') >= 1
       /\ cached_generators'[1] = <<1>>
       /\ \A dd \in 0..(Len(cached_generators') - 1) :
             MonicOfDegree(cached_generators', dd)
       /\ GeneratorProducts(field, cached_generators', Len(cached_generators') - 1)
       /\ outcome = "filled" => CacheKept(cached_generators, cached_generators')
       /\ outcome = "filled" /\ outcome' = "encoded"
            => Len(cached_generators') >= ec_bytes + 1]_vars

\* what holds of the cache in every case: the same, the product taken only over
\* the entries whose exponents the exp table holds, those at an index d with
\* d + generator_base <= size (past the table exp reads undefined, line 262)
C19_CacheHoldsGeneratorsInTable ==
    [][/\ Len(cached_generators') >= 1
       /\ cached_generators'[1] = <<1>>
       /\ \A dd \in 0..(Len(cached_generators') - 1) :
             MonicOfDegree(cached_generators', dd)
       /\ GeneratorProducts(field, cached_generators',
                            IF Len(cached_generators') - 1 + field.generator_base
                                 <= field.size
                            THEN Len(cached_generators') - 1
                            ELSE field.size - field.generator_base)
       /\ outcome = "filled" => CacheKept(cached_generators, cached_generators')
       /\ outcome = "filled" /\ outcome' = "encoded"
            => Len(cached_generators') >= ec_bytes + 1]_vars

\* a state the cache property is about: a successful encode with a small ec_len on an encoder whose
\* cache already held generators of higher degree, all within the exp table.
C19_Witness ==
    /\ outcome = "encoded"
    /\ ec_bytes >= 1
    /\ Len(cached_generators) >= ec_bytes + 3
    /\ Len(cached_generators) - 1 + field.generator_base <= field.size
    /\ field.generator_base = 1

\* the caller's buffer and ec_bytes are in the range C20 speaks of
SyndromeRange ==
    /\ ec_bytes >= 1
    /\ Len(buffer) > ec_bytes
    /\ ec_bytes + field.generator_base <= field.size - 1

\* the syndromes decode computes for the buffer are all zero
DecodeSyndromesZero ==
    LET syndrome_coefficients == SyndromeCoefficients(field, buffer, ec_bytes)
    IN \A k \in 1..ec_bytes : syndrome_coefficients[k] = 0

\* the polynomial the buffer spells leaves no remainder on division by the
\* generator
DivisibleBy(generator) ==
    IsZero(Divide(field, PolyNew(buffer), generator).remainder)

\* encode on the buffer, by an encoder with the given cache, writes the parity
\* region the buffer already holds
EncodeReproduces(cache) == Encode(field, cache, buffer, ec_bytes).data = buffer

\* the state holds the field, buffer and ec_bytes of the state the last call
\* started from: the twin encoder writes its own buffer, and decode stores the
\* buffer it was given in snapshot
SameCaseAsBefore ==
    \/ outcome = "twin_encoded"
    \/ outcome \in {"decoded", "decode_failed"} /\ buffer = snapshot

\* C20: for a buffer of length n > ec_len >= 1 with ec_len + generator_base <=
\* size - 1, the syndromes decode computes are all zero exactly when the buffer
\* polynomial is divisible by the generator of degree ec_len, and exactly when
\* encode on the buffer reproduces its parity region. Every (field, buffer,
\* ec_bytes) of a reachable state is covered: a state left out repeats the case
\* of its predecessor.
C20_SyndromesCharacteriseCodewords ==
    SyndromeRange /\ ~SameCaseAsBefore
        => LET no_error == DecodeSyndromesZero
               built == BuildGenerator(field, NewCache, ec_bytes)
           IN /\ no_error <=> DivisibleBy(built.generator)
              /\ no_error <=> EncodeReproduces(built.cache)

\* C20 witness: a word other than the encoded codeword, with non-zero data and
\* at least two parity bytes, has zero syndromes and is reproduced by encode.
C20_Witness ==
    /\ outcome = "corrupted"
    /\ SyndromeRange
    /\ ec_bytes >= 2
    /\ buffer # original
    /\ ~AllZero(DataRegion(buffer, ec_bytes))
    /\ DecodeSyndromesZero
    /\ EncodeReproduces(NewCache)

\* ------------------------------------------------ the decode call in steps
\* a call followed step by step ends as decode, computed in one go, ends
StepsAgreeWithDecode ==
    decoder.pc \in {"returned", "raised"}
        => LET res == Decode(field, snapshot, ec_bytes)
           IN res.received = buffer /\ res.err = decoder.err

\* the step leaves the outer loop of run_euclidean_algorithm through its
\* condition (the raise of line 452 comes after the loop)
EuclidLoopExited ==
    /\ decoder.pc = "euclid"
    /\ decoder'.pc = "locate" \/ decoder'.err = "sigmaTilde(0) was zero"

\* C21: a decode call, for every buffer and every ec_len >= 1, eventually
\* returns or raises; each pass of the Euclidean loop that does not raise
\* leaves a remainder of strictly lower degree; the loop exits with a remainder
\* of degree strictly below ec_len / 2, and omega has degree below ec_len / 2.
C21_DecodeTerminates ==
    /\ (decoder.pc = "called") ~> (decoder.pc \in {"returned", "raised"})
    /\ [][/\ decoder.pc = "euclid" /\ decoder'.pc = "euclid"
              => Degree(decoder'.r) < Degree(decoder.r)
          /\ EuclidLoopExited => 2 * Degree(decoder.r) < ec_bytes
          /\ decoder'.pc = "locate" => 2 * Degree(decoder'.omega) < ec_bytes]_vars

\* C21 witness: a call with an odd ec_len has ended after the Euclidean loop
\* made at least two passes (t_last is then a quotient, of degree >= 1).
C21_Witness ==
    /\ decoder.pc \in {"returned", "raised"}
    /\ ec_bytes % 2 = 1
    /\ Degree(decoder.t_last) >= 1

\* the non-zero elements of the field at which the polynomial q, summed term by
\* term, is zero
NonZeroRoots(f, q) == {x \in 1..(f.size - 1) : PolyAt(f, q, x, 1) = 0}

\* C22: of the sigma decode hands to find_error_locations. With degree 1 the
\* location read from the degree-1 coefficient is the one the exhaustive search
\* returns, the inverse of sigma's only root. With another degree the search
\* raises exactly when the number of non-zero roots differs from the degree,
\* and otherwise the result holds the inverses of all of them, each once.
C22_ErrorLocationSearch ==
    [][decoder.pc = "locate"
        => LET sigma == decoder.sigma
               roots == NonZeroRoots(field, sigma)
               found == decoder'.error_locations
           IN IF Degree(sigma) = 1
              THEN /\ decoder'.pc = "magnitudes"
                   /\ found = <<GetCoefficient(sigma, 1)>>
                   /\ found = RootSearch(field, sigma, 1, <<>>)
                   /\ roots = {GFInverse(field, found[1])}
              ELSE /\ decoder'.pc = "raised" <=> Cardinality(roots) # Degree(sigma)
                   /\ decoder'.pc = "raised"
                        => decoder'.err
                             = "Error locator degree does not match number of roots"
                   /\ decoder'.pc = "magnitudes"
                        => /\ {found[k] : k \in 1..Len(found)}
                                = {GFInverse(field, x) : x \in roots}
                           /\ Len(found) = Cardinality(roots)]_vars

\* C22 witness: the exhaustive search has returned the two locations of a sigma
\* of degree 2, neither of them its own inverse.
C22_Witness ==
    /\ decoder.pc = "magnitudes"
    /\ Degree(decoder.sigma) = 2
    /\ Len(decoder.error_locations) = 2
    /\ \A k \in 1..2 :
          GFInverse(field, decoder.error_locations[k]) # decoder.error_locations[k]

\* the step is a write of the correction loop of decode
CorrectionWritten == decoder.pc = "correct" /\ decoder'.i = decoder.i + 1

\* C23: every write of decode is at position buffer.length - 1 - log(loc), a
\* position of the buffer, and changes nothing else; a located error that maps
\* to a negative position raises 'Bad error location' and nothing is written
\* for it.
C23_CorrectionsInBuffer ==
    [][decoder.pc = "correct" /\ decoder.i < Len(decoder.error_locations)
        => LET loc == decoder.error_locations[decoder.i + 1]
               position == Len(buffer) - 1 - field.log_table[loc]
           IN /\ loc # 0
              /\ position >= 0
                   => /\ CorrectionWritten
                      /\ decoder'.position = position
                      /\ position < Len(buffer)
                      /\ Len(buffer') = Len(buffer)
                      /\ \A k \in 1..Len(buffer) :
                            buffer'[k] = IF k = position + 1
                                         THEN BitXor(buffer[k],
                                                     decoder.error_magnitudes[decoder.i + 1])
                                         ELSE buffer[k]
              /\ position < 0
                   => /\ decoder'.pc = "raised"
                      /\ decoder'.err = "Bad error location"
                      /\ buffer' = buffer]_vars

\* C23 witness: decode has written the second of two corrections, at another
\* position than the first.
C23_Witness ==
    /\ decoder.pc = "correct"
    /\ decoder.i = 2
    /\ Cardinality({k \in 1..Len(buffer) : buffer[k] # snapshot[k]}) = 2

\* the positions at which the buffer differs from what the caller handed over
ChangedPositions == {k \in 1..Len(buffer) : buffer[k] # snapshot[k]}

\* C25: a decode call that returns normally has changed at most
\* floor(ec_len / 2) positions of the buffer: the sigma of the Euclidean step
\* has degree at most floor(ec_len / 2), there are as many located errors as
\* its degree, and each of them changes at most one position.
C25_AtMostHalfChanged ==
    /\ decoder.pc \in {"locate", "magnitudes", "correct"}
         => Degree(decoder.sigma) <= ec_bytes \div 2
    /\ decoder.pc \in {"magnitudes", "correct"}
         => Len(decoder.error_locations) = Degree(decoder.sigma)
    /\ decoder.pc = "correct"
         => /\ decoder.i <= Len(decoder.error_locations)
            /\ Cardinality(ChangedPositions) <= decoder.i
    /\ decoder.pc = "returned"
         => Cardinality(ChangedPositions) <= ec_bytes \div 2

\* C25 witness: a call with ec_len 5 has returned after changing two positions.
C25_Witness ==
    /\ decoder.pc = "returned"
    /\ ec_bytes = 5
    /\ Cardinality(ChangedPositions) = 2

RECURSIVE CorrectionsAt(_, _, _)
\* the XOR of the magnitudes of the located errors 1..n that map to position k
\* (a JavaScript index) of the buffer
CorrectionsAt(k, n, dec) ==
    IF n = 0 THEN 0
    ELSE BitXor(IF Len(buffer) - 1 - field.log_table[dec.error_locations[n]] = k
                THEN dec.error_magnitudes[n] ELSE 0,
                CorrectionsAt(k, n - 1, dec))

\* C26 as stated: whenever decode raises, the buffer is what it was when decode
\* was called.
C26_RaiseLeavesBuffer == decoder.pc = "raised" => buffer = snapshot

\* C26 amended: a failure of the Euclidean step, the root search or the
\* magnitude computation leaves the buffer as it was at the call; when the
\* position check raises for a located error, the corrections of the located
\* errors before it, and only those, have been applied.
C26_RaiseKeepsEarlierCorrections ==
    /\ decoder.pc = "raised" /\ decoder.err # "Bad error location"
         => buffer = snapshot
    /\ decoder.pc = "raised" /\ decoder.err = "Bad error location"
         => /\ Len(buffer) = Len(snapshot)
            /\ decoder.i < Len(decoder.error_locations)
            /\ \A k \in 1..Len(buffer) :
                  buffer[k] = BitXor(snapshot[k], CorrectionsAt(k - 1, decoder.i, decoder))

\* C26 witness: the position check has raised for the second located error
\* after the correction of the first was written.
C26_Witness ==
    /\ decoder.pc = "raised"
    /\ decoder.err = "Bad error location"
    /\ decoder.i = 1
    /\ buffer # snapshot

\* --------------------------------------------------- magnitudes in decode
\* the error locations and magnitudes decode computes for a buffer (lines
\* 384-393), none when it returns early or raises before the correction loop
LocatedErrors(f, received, ec) ==
    LET syndrome_coefficients == SyndromeCoefficients(f, received, ec)
        none == [locations |-> <<>>, magnitudes |-> <<>>]
    IN IF \A k \in 1..ec : syndrome_coefficients[k] = 0 THEN none
       ELSE LET sigma_omega ==
                    RunEuclideanAlgorithm(f, BuildMonomial(ec, 1),
                                          PolyNew(syndrome_coefficients), ec)
            IN IF sigma_omega.err # "" THEN none
               ELSE LET locs == FindErrorLocations(f, sigma_omega.sigma)
                    IN IF locs.err # "" THEN none
                       ELSE LET mags == FindErrorMagnitudes(f, sigma_omega.omega,
                                                            locs.locations)
                            IN IF mags.err # "" THEN none
                               ELSE [locations |-> locs.locations,
                                     magnitudes |-> mags.magnitudes]

\* the step is a decode call on a codeword with at most floor(ec_len / 2)
\* corrupted positions, in a field and of a length as in StandardCode
DecodeOfStandardCodeword ==
    /\ outcome \in {"encoded", "corrupted"}
    /\ DecodeEnded'
    /\ WithinCapacity
    /\ StandardCode
    /\ ec_bytes < Len(buffer)

\* C24: for a field with generator base 0 or 1 and a buffer with
\* ec_len < length <= size - 1, decode restores a codeword exactly after a
\* corruption of at most floor(ec_len / 2) positions, ec_len odd or even; the
\* located errors are at the corrupted positions and the magnitude of each is
\* the received byte XOR the original byte there.
C24_RestoresWithExactMagnitudes ==
    [][DecodeOfStandardCodeword
        => /\ outcome' = "decoded"
           /\ buffer' = original
           /\ LET errors == LocatedErrors(field, buffer, ec_bytes)
                  position(i) == Len(buffer) - 1 - field.log_table[errors.locations[i]]
              IN /\ Len(errors.locations) = Cardinality(corrupted)
                 /\ {position(i) : i \in 1..Len(errors.locations)} = corrupted
                 /\ \A i \in 1..Len(errors.locations) :
                       errors.magnitudes[i]
                         = BitXor(buffer[position(i) + 1], original[position(i) + 1])]_vars

\* C24 witness: one corrupted position of a codeword with three parity bytes,
\* an odd ec_len, was repaired on a field with generator base 1.
C24_Witness ==
    /\ outcome = "decoded"
    /\ StandardCode
    /\ field.generator_base = 1
    /\ ec_bytes = 3
    /\ Len(buffer) > ec_bytes
    /\ Cardinality(corrupted) = 1
    /\ snapshot # original
    /\ buffer = original

====
